---- MODULE Spec2Model ----
(***************************************************************************)
(* Model of the tiled-image-viewer: the TileLoader request queue and its   *)
(* worker threads (tile_loader.cc), the viewer's LRU tile list (main.cc)   *)
(* and the two HTTP range readers (http_reader.cc,                         *)
(* http_reader_blockcache.cc).                                             *)
(*                                                                         *)
(* Every critical section of the code (a region holding m_mutex, tilemutex *)
(* or the reader's mutex) is one action.                                   *)
(***************************************************************************)
EXTENDS Integers, Sequences, FiniteSets, TLC

\* ------------------------------------------------------------------ bounds

\* Number of distinct tile keys (x, y, layer) the viewer may ask for.
NumKeys == 3

\* Number of distinct tile keys a caller passes to a TileLoader that is
\* used on its own (SpecLoader).
NumCallerKeys == 2

\* Number of TileLoader worker threads (constructor argument num_workers).
NumWorkers == 2

\* Capacity of the tile list; main.cc sets tile_cache_size = 150, the model
\* uses a small list so that evictions happen.
TileCacheSize == 2

\* Largest length of the remote resource, in bytes.
MaxFileSize == 5

\* Largest length of a resource read through the interval-list reader,
\* whose cache has many more states than the list of blocks.
MaxListFileSize == 2

\* Largest size passed to read.
MaxReadSize == 2

\* Largest number of ranges in the cache of the interval-list reader: the
\* model leaves out the calls that would make the list longer.
MaxSpans == 2

\* The chunk read fetches for a byte that is not cached: 65536 bytes in the
\* code, a few bytes in the model, whose resources are a few bytes long.
ChunkSize == 1

\* block_size of the fixed-block reader (constructor argument, 64 * 1024 by
\* default), scaled like ChunkSize.
BlockSize == 2

\* Number of threads that call one reader at the same time.
NumThreads == 2

\* Largest number of detached load_tile threads alive at one time: main.cc
\* starts one per tile it inserts, without a limit; the model leaves out the
\* inserts that would start more.
MaxLoadThreads == 3

\* Number of blocks whose bytes an unsigned int can count: 2^32 bytes are
\* 65536 blocks of the default size in the code, whose block offsets are
\* products of an int and a uint32_t; a few blocks in the model, so that a
\* resource of a few blocks reaches past the largest unsigned int.
UIntBlocks == 4

Keys == 1..NumKeys
CallerKeys == 1..NumCallerKeys
Workers == 1..NumWorkers
Threads == 1..NumThreads

\* ------------------------------------------------------------------- state

VARIABLES
  tiles,       \* main.cc: std::vector<Tile> tiles, front = most recently used
  m_queue,     \* TileLoader::m_queue, front = index 1
  m_shutdown,  \* TileLoader::m_shutdown
  wpc,         \* per worker thread: where it is in worker_thread()
  wreq,        \* per worker thread: its local `TileRequest req`
  shpc,        \* the thread calling shutdown(): "idle", "joining", "returned"
  loadThreads, \* main.cc: per key, the load_tile threads waiting for loadmutex
  loadmutex,   \* main.cc: the key of the load_tile that holds loadmutex, or 0
  exited,      \* main.cc: whether exit() has ended the process
  touched,     \* the keys in the tile list, last one a display pass met first
  script,      \* the calls a scripted caller has made so far (SpecScenario)
  pickLog,     \* the requests picked so far, in order (SpecScenario)
  reader,            \* which reader class is in use: "list" or "block"
  content_length,    \* the remote resource: its length in bytes
  file_size,         \* reader: file_size, -1 until init succeeds
  current_position,  \* reader: current_position
  cache,             \* reader: cache (a list of ranges, or of blocks)
  curl_handle,       \* reader: whether curl_handle is non-null
  ndebug,            \* whether the build defines NDEBUG (assert is a no-op)
  aborted,           \* whether an assert has aborted the process
  ret,               \* what the most recent reader call did and returned
  mutex,             \* reader: the threads inside a lock_guard of `mutex`
  locals             \* per thread: what it found when it took the mutex

\* The variables only SpecScenario changes.
obsVars == <<script, pickLog>>

\* The variables of the detached load_tile threads of main.cc.
viewerVars == <<loadThreads, loadmutex, exited, touched>>

\* The variables of the TileLoader, the tile list and the viewer's threads.
tileVars == <<tiles, m_queue, m_shutdown, wpc, wreq, shpc, viewerVars>>

\* The variables of the threads that call a reader.
threadVars == <<mutex, locals>>

\* The variables of an HTTP reader, its remote resource and its callers.
readerVars == <<reader, content_length, file_size, current_position, cache,
                curl_handle, ndebug, aborted, ret, threadVars>>

vars == <<tileVars, obsVars, readerVars>>

\* The local `req` of a worker that is not between a pick and the end of
\* its callback.
NoReq == [key |-> 0, wanted |-> FALSE]

\* --------------------------------------------------- TileLoader: the queue

RECURSIVE FindKey(_, _, _)
\* Index of the first entry of q at or after i whose key is k, 0 when there
\* is none (the loop of queue_tile, and std::find_if in worker_thread).
FindKey(q, k, i) ==
  IF i > Len(q) THEN 0
  ELSE IF q[i].key = k THEN i
  ELSE FindKey(q, k, i + 1)

\* queue_tile without the search for an already queued request.
queue_tile_no_search(q, k) == <<[key |-> k, wanted |-> TRUE]>> \o q

\* TileLoader::queue_tile, its effect on m_queue.
queue_tile(q, k) ==
  LET i == FindKey(q, k, 1)
  IN  IF i # 0
      THEN [q EXCEPT ![i].wanted = TRUE]
      ELSE <<[key |-> k, wanted |-> TRUE]>> \o q

\* TileLoader::mark_all_unwanted, its effect on m_queue.
mark_all_unwanted(q) ==
  [i \in 1..Len(q) |-> [q[i] EXCEPT !.wanted = FALSE]]

RECURSIVE FirstWanted(_, _)
\* Index of the first wanted entry at or after i, 0 when there is none.
FirstWanted(q, i) ==
  IF i > Len(q) THEN 0
  ELSE IF q[i].wanted THEN i
  ELSE FirstWanted(q, i + 1)

\* pick_best_tile falling back to the back of the queue (oldest first).
pick_best_tile_back(q) ==
  LET i == FirstWanted(q, 1)
  IN  IF i # 0 THEN i ELSE Len(q)

\* pick_best_tile without the fall-back to the front request.
pick_best_tile_wanted_only(q) == FirstWanted(q, 1)

\* TileLoader::pick_best_tile: the index of the entry it returns, 0 for
\* nullptr.
pick_best_tile(q) ==
  LET i == FirstWanted(q, 1)
  IN  IF i # 0 THEN i
      ELSE IF q # <<>> THEN 1
      ELSE 0

\* worker_thread without the erase: the picked request stays queued.
EraseKey_none(q, k) == q

\* m_queue.erase(std::find_if(... same x, y, layer ...)).
EraseKey(q, k) ==
  LET i == FindKey(q, k, 1)
  IN  SubSeq(q, 1, i - 1) \o SubSeq(q, i + 1, Len(q))

\* queue_tile without its m_cv.notify_one().
NotifyOne_missing(pc) == {pc}

\* shutdown without its m_cv.notify_all().
NotifyAll_missing(pc) == pc

\* m_cv.notify_one(): one of the threads blocked in m_cv.wait, if any,
\* becomes runnable.  The result is the set of possible outcomes.
NotifyOne(pc) ==
  IF \A w \in Workers : pc[w] # "wait"
  THEN {pc}
  ELSE {[pc EXCEPT ![w] = "lock"] : w \in {v \in Workers : pc[v] = "wait"}}

\* m_cv.notify_all(): every thread blocked in m_cv.wait becomes runnable.
NotifyAll(pc) ==
  [w \in Workers |-> IF pc[w] = "wait" THEN "lock" ELSE pc[w]]

\* ------------------------------------------------- main.cc: the tile list

\* move_tile_to_front_of_lru_cache(idx), idx counted from 1.
move_tile_to_front_of_lru_cache(ts, idx) ==
  <<ts[idx]>> \o SubSeq(ts, 1, idx - 1) \o SubSeq(ts, idx + 1, Len(ts))

\* `tile_found` after the loop over the tile list.
TileFound(ts, k) == \E i \in 1..Len(ts) : ts[i].key = k

RECURSIVE DrawScan(_, _, _)
\* The loop `for (i = 0; i < tiles.size(); i++)` of the display pass for
\* one visible tile k: a ready tile is drawn and moved to the front, a
\* tile waiting for its texture upload becomes ready and is moved to the
\* front, a loading tile is left where it is.
DrawScan(ts, k, i) ==
  IF i > Len(ts) THEN ts
  ELSE IF ts[i].key # k THEN DrawScan(ts, k, i + 1)
  ELSE IF ts[i].state = "ready"
       THEN DrawScan(move_tile_to_front_of_lru_cache(ts, i), k, i + 1)
  ELSE IF ts[i].state = "waiting_for_texture_upload"
       THEN DrawScan(move_tile_to_front_of_lru_cache(
                       [ts EXCEPT ![i].state = "ready"], i), k, i + 1)
  ELSE DrawScan(ts, k, i + 1)

\* The branch without the eviction: the new tile is pushed onto a full list.
InsertTile_no_eviction(ts, k) ==
  move_tile_to_front_of_lru_cache(
    Append(ts, [key |-> k, state |-> "loading"]), Len(ts) + 1)

\* The `if (!tile_found)` branch: evict the back tile of a full list, then
\* push the new loading tile and move it to the front.
InsertTile(ts, k) ==
  LET kept == IF Len(ts) = TileCacheSize THEN SubSeq(ts, 1, Len(ts) - 1) ELSE ts
      pushed == Append(kept, [key |-> k, state |-> "loading"])
  IN  move_tile_to_front_of_lru_cache(pushed, Len(pushed))

\* The end of load_tile: under tilemutex, the first tile with the key gets
\* state waiting_for_texture_upload (and the decoded image).
RECURSIVE StoreImage(_, _, _)
StoreImage(ts, k, i) ==
  IF i > Len(ts) THEN ts
  ELSE IF ts[i].key = k
       THEN [ts EXCEPT ![i].state = "waiting_for_texture_upload"]
  ELSE StoreImage(ts, k, i + 1)

\* How the display pass starts the background load of a new tile: through
\* the TileLoader (main.cc as given starts a detached thread running
\* load_tile at this place).
StartLoad(q, k) == queue_tile(q, k)

\* ----------------------------------------------------------------- actions

\* A worker that runs m_callback inside the scope of its unique_lock.
HoldsMutex_in_callback(p) == p \in {"callback", "decode"}

\* Whether a worker thread at position p of worker_thread holds m_mutex
\* between two steps: blocked in m_cv.wait, about to take the lock, in
\* m_callback (called after the scope of the unique_lock) or returned, it
\* does not.
HoldsMutex(p) == p \in {}

\* Whether a caller can take m_mutex.
MutexFree == \A w \in Workers : ~HoldsMutex(wpc[w])

\* TileLoader::queue_tile(k): under m_mutex, mark the queued request as
\* wanted, or push a new one at the front and notify one waiting worker.
QueueTileCore(k) ==
  /\ MutexFree
  /\ m_queue' = queue_tile(m_queue, k)
  /\ IF FindKey(m_queue, k, 1) = 0
     THEN wpc' \in NotifyOne(wpc)
     ELSE wpc' = wpc
  /\ UNCHANGED <<tiles, m_shutdown, wreq, shpc, readerVars, viewerVars>>

\* A call of TileLoader::queue_tile(k) by any caller.
QueueTile(k) ==
  /\ QueueTileCore(k)
  /\ UNCHANGED obsVars

\* TileLoader::mark_all_unwanted().
MarkAllUnwantedCore ==
  /\ MutexFree
  /\ m_queue' = mark_all_unwanted(m_queue)
  /\ UNCHANGED <<tiles, m_shutdown, wpc, wreq, shpc, readerVars, viewerVars>>

\* A call of TileLoader::mark_all_unwanted() by any caller.
MarkAllUnwanted ==
  /\ MarkAllUnwantedCore
  /\ UNCHANGED obsVars

\* The display pass handling one visible tile k (the body of the two
\* nested loops over ty, tx).
DisplayTile(k) ==
  IF TileFound(tiles, k)
  THEN /\ tiles' = DrawScan(tiles, k, 1)
       /\ UNCHANGED <<m_queue, m_shutdown, wpc, wreq, shpc, obsVars, readerVars, viewerVars>>
  ELSE /\ tiles' = InsertTile(tiles, k)
       /\ m_queue' = StartLoad(m_queue, k)
       /\ IF FindKey(m_queue, k, 1) = 0
          THEN wpc' \in NotifyOne(wpc)
          ELSE wpc' = wpc
       /\ UNCHANGED <<m_shutdown, wreq, shpc, obsVars, readerVars, viewerVars>>

\* worker_thread: m_cv.wait finds its predicate false and blocks.
WorkerWait(w) ==
  /\ wpc[w] = "lock"
  /\ ~(m_shutdown \/ m_queue # <<>>)
  /\ wpc' = [wpc EXCEPT ![w] = "wait"]
  /\ UNCHANGED <<tiles, m_queue, m_shutdown, wreq, shpc, obsVars, readerVars, viewerVars>>

\* A spurious wakeup of m_cv.wait: the thread re-evaluates the predicate.
SpuriousWakeup(w) ==
  /\ wpc[w] = "wait"
  /\ wpc' = [wpc EXCEPT ![w] = "lock"]
  /\ UNCHANGED <<tiles, m_queue, m_shutdown, wreq, shpc, obsVars, readerVars, viewerVars>>

\* worker_thread: `if (m_shutdown) return;`
WorkerExit(w) ==
  /\ wpc[w] = "lock"
  /\ m_shutdown
  /\ wpc' = [wpc EXCEPT ![w] = "exited"]
  /\ UNCHANGED <<tiles, m_queue, m_shutdown, wreq, shpc, obsVars, readerVars, viewerVars>>

\* worker_thread, the wait predicate holds and m_shutdown is false: pick
\* the best request (`continue` when there is none), copy it, erase it
\* from the queue, release the lock and call m_callback.
WorkerPickCore(w) ==
  /\ wpc[w] = "lock"
  /\ ~m_shutdown
  /\ m_queue # <<>>
  /\ LET b == pick_best_tile(m_queue)
     IN  IF b = 0
         THEN UNCHANGED <<m_queue, wpc, wreq>>
         ELSE /\ wreq' = [wreq EXCEPT ![w] = m_queue[b]]
              /\ m_queue' = EraseKey(m_queue, m_queue[b].key)
              /\ wpc' = [wpc EXCEPT ![w] = "callback"]
  /\ UNCHANGED <<tiles, m_shutdown, shpc, readerVars, viewerVars>>

WorkerPick(w) ==
  /\ WorkerPickCore(w)
  /\ UNCHANGED obsVars

\* m_callback returns (any callback that terminates) and the worker loops.
CallbackReturn(w) ==
  /\ wpc[w] = "callback"
  /\ wpc' = [wpc EXCEPT ![w] = "lock"]
  /\ wreq' = [wreq EXCEPT ![w] = NoReq]
  /\ UNCHANGED <<tiles, m_queue, m_shutdown, shpc, obsVars, readerVars, viewerVars>>

\* load_tile: the callback takes loadmutex and decodes.
DecodeBegin(w) ==
  /\ wpc[w] = "callback"
  /\ \A v \in Workers : wpc[v] # "decode"
  /\ wpc' = [wpc EXCEPT ![w] = "decode"]
  /\ UNCHANGED <<tiles, m_queue, m_shutdown, wreq, shpc, obsVars, readerVars, viewerVars>>

\* load_tile: the decode is done, the image is stored under tilemutex, the
\* callback returns and the worker loops.
DecodeEnd(w) ==
  /\ wpc[w] = "decode"
  /\ tiles' = StoreImage(tiles, wreq[w].key, 1)
  /\ wpc' = [wpc EXCEPT ![w] = "lock"]
  /\ wreq' = [wreq EXCEPT ![w] = NoReq]
  /\ UNCHANGED <<m_queue, m_shutdown, shpc, obsVars, readerVars, viewerVars>>

\* shutdown(): set m_shutdown under the lock, notify_all, start joining.
ShutdownBegin ==
  /\ shpc = "idle"
  /\ m_shutdown' = TRUE
  /\ wpc' = NotifyAll(wpc)
  /\ shpc' = "joining"
  /\ UNCHANGED <<tiles, m_queue, wreq, obsVars, readerVars, viewerVars>>

\* shutdown(): every join has returned; m_workers.clear(); return.
ShutdownJoin ==
  /\ shpc = "joining"
  /\ \A w \in Workers : wpc[w] = "exited"
  /\ shpc' = "returned"
  /\ UNCHANGED <<tiles, m_queue, m_shutdown, wpc, wreq, obsVars, readerVars, viewerVars>>

\* ------------------------------- main.cc: the detached load_tile threads

RECURSIVE LiveLoads(_, _)
\* The number of load_tile threads of the keys k.. that wait for loadmutex.
LiveLoads(lt, k) ==
  IF k > NumKeys THEN 0 ELSE lt[k] + LiveLoads(lt, k + 1)

\* The keys of the tile list ts in the order of tc, the key k put first.
Touch(tc, ts, k) ==
  SelectSeq(<<k>> \o SelectSeq(tc, LAMBDA j : j # k),
            LAMBDA j : TileFound(ts, j))

\* The display pass of main.cc handling one visible tile k (the body of the
\* two nested loops over ty, tx, under tilemutex): a tile in the list is
\* drawn; for one that is not, a loading tile is inserted and a detached
\* thread running load_tile is started.
DrawVisibleTile(k) ==
  /\ ~exited
  /\ IF TileFound(tiles, k)
     THEN /\ tiles' = DrawScan(tiles, k, 1)
          /\ UNCHANGED loadThreads
     ELSE /\ LiveLoads(loadThreads, 1) + (IF loadmutex = 0 THEN 0 ELSE 1)
               < MaxLoadThreads
          /\ tiles' = InsertTile(tiles, k)
          /\ loadThreads' = [loadThreads EXCEPT ![k] = @ + 1]
  /\ touched' = Touch(touched, tiles', k)
  /\ UNCHANGED <<loadmutex, exited, m_queue, m_shutdown, wpc, wreq, shpc,
                 obsVars, readerVars>>

\* load_tile(k): a thread takes loadmutex.
load_tile_lock(k) ==
  /\ ~exited
  /\ loadThreads[k] > 0
  /\ loadmutex = 0
  /\ loadmutex' = k
  /\ loadThreads' = [loadThreads EXCEPT ![k] = @ - 1]
  /\ UNCHANGED <<tiles, exited, touched, m_queue, m_shutdown, wpc, wreq, shpc,
                 obsVars, readerVars>>

\* load_tile(k): the decode has succeeded; the image is stored under
\* tilemutex, the thread returns and releases loadmutex.
load_tile_store(k) ==
  /\ ~exited
  /\ loadmutex = k
  /\ tiles' = StoreImage(tiles, k, 1)
  /\ loadmutex' = 0
  /\ UNCHANGED <<loadThreads, exited, touched, m_queue, m_shutdown, wpc, wreq,
                 shpc, obsVars, readerVars>>

\* load_tile(k): heif_image_handle_decode_image_tile has returned an error;
\* the thread calls exit(0).
load_tile_error(k) ==
  /\ ~exited
  /\ loadmutex = k
  /\ exited' = TRUE
  /\ UNCHANGED <<tiles, loadThreads, loadmutex, touched, m_queue, m_shutdown,
                 wpc, wreq, shpc, obsVars, readerVars>>

\* ------------------------------------------- the scenario of five requests

\* The scripted caller: queue_tile(1) .. queue_tile(5), mark_all_unwanted(),
\* then queue_tile(2) and queue_tile(4) in either order.  A call of
\* mark_all_unwanted is written 0 in `script`.
ScriptKeys(sc) ==
  IF Len(sc) < 5 THEN {Len(sc) + 1}
  ELSE IF Len(sc) < 6 THEN {}
  ELSE {k \in {2, 4} : \A i \in 7..Len(sc) : sc[i] # k}

ScriptQueueTile(k) ==
  /\ k \in ScriptKeys(script)
  /\ QueueTileCore(k)
  /\ script' = Append(script, k)
  /\ UNCHANGED pickLog

ScriptMarkAllUnwanted ==
  /\ Len(script) = 5
  /\ MarkAllUnwantedCore
  /\ script' = Append(script, 0)
  /\ UNCHANGED pickLog

\* A pick, logged with the number of calls the caller had made by then.
ScenarioPick(w) ==
  /\ WorkerPickCore(w)
  /\ pickLog' = IF wpc'[w] = "callback"
                THEN Append(pickLog, [key |-> wreq'[w].key, calls |-> Len(script)])
                ELSE pickLog
  /\ UNCHANGED script

\* ---------------------------------------------------------- specifications

\* The tile side after construction: empty tile list and queue, every
\* worker thread started.
InitTiles ==
  /\ tiles = <<>>
  /\ m_queue = <<>>
  /\ m_shutdown = FALSE
  /\ wpc = [w \in Workers |-> "lock"]
  /\ wreq = [w \in Workers |-> NoReq]
  /\ shpc = "idle"
  /\ loadThreads = [k \in Keys |-> 0]
  /\ loadmutex = 0
  /\ exited = FALSE
  /\ touched = <<>>
  /\ script = <<>>
  /\ pickLog = <<>>

\* No reader call has been made.
NoCall ==
  [op |-> "none", a |-> 0, b |-> 0, status |-> "none", fetches |-> <<>>,
   out |-> <<>>, pos0 |-> 0, prev |-> "none"]

\* A reader as constructed, before init.
InitReaderObject ==
  /\ file_size = -1
  /\ current_position = 0
  /\ cache = <<>>
  /\ curl_handle = FALSE
  /\ aborted = FALSE
  /\ ret = NoCall
  /\ mutex = {}
  /\ locals = [t \in Threads |-> <<>>]

\* The specifications of the tile side do not use a reader.
InitLoader ==
  /\ InitTiles
  /\ InitReaderObject
  /\ reader = "none"
  /\ content_length = 0
  /\ ndebug = FALSE

\* The viewer: display passes over the tile list, loads through the
\* TileLoader.
Next ==
  \/ MarkAllUnwanted
  \/ \E k \in Keys : DisplayTile(k)
  \/ \E w \in Workers : WorkerWait(w)
  \/ \E w \in Workers : SpuriousWakeup(w)
  \/ \E w \in Workers : WorkerPick(w)
  \/ \E w \in Workers : DecodeBegin(w)
  \/ \E w \in Workers : DecodeEnd(w)

Spec == InitLoader /\ [][Next]_vars

\* The TileLoader alone, driven by any caller, with any callback that
\* terminates.
NextLoader ==
  \/ MarkAllUnwanted
  \/ \E k \in CallerKeys : QueueTile(k)
  \/ \E w \in Workers : WorkerWait(w)
  \/ \E w \in Workers : SpuriousWakeup(w)
  \/ \E w \in Workers : WorkerExit(w)
  \/ \E w \in Workers : WorkerPick(w)
  \/ \E w \in Workers : CallbackReturn(w)
  \/ ShutdownBegin
  \/ ShutdownJoin

SpecLoader == InitLoader /\ [][NextLoader]_vars

\* What a worker thread does when it is scheduled and can take m_mutex.
WorkerStep(w) ==
  \/ WorkerWait(w)
  \/ WorkerExit(w)
  \/ WorkerPick(w)
  \/ CallbackReturn(w)

\* The scheduling the liveness claims assume: a runnable worker thread
\* eventually runs, a callback eventually returns, and a join that can
\* return does.  Calls by the caller and spurious wakeups are not assumed
\* to happen.
Fairness ==
  /\ \A w \in Workers : WF_vars(WorkerStep(w))
  /\ WF_vars(ShutdownJoin)

SpecLoaderFair == SpecLoader /\ Fairness

\* The TileLoader driven by the scripted caller.
NextScenario ==
  \/ \E k \in 1..5 : ScriptQueueTile(k)
  \/ ScriptMarkAllUnwanted
  \/ \E w \in Workers : WorkerWait(w)
  \/ \E w \in Workers : SpuriousWakeup(w)
  \/ \E w \in Workers : ScenarioPick(w)
  \/ \E w \in Workers : CallbackReturn(w)

SpecScenario == InitLoader /\ [][NextScenario]_vars

\* The viewer as main.cc runs it: display passes and the load_tile threads
\* they start.
NextViewer ==
  \/ \E k \in Keys : DrawVisibleTile(k)
  \/ \E k \in Keys : load_tile_lock(k)
  \/ \E k \in Keys : load_tile_store(k)
  \/ \E k \in Keys : load_tile_error(k)

SpecViewer == InitLoader /\ [][NextViewer]_vars

\* ------------------------------------------------- the remote resource

\* Byte i of the remote resource (offsets start at 0); every offset holds a
\* different value.
Byte(i) == 100 + i

\* Bytes [first, last] of the remote resource.
Bytes(first, last) == [i \in 1..(last - first + 1) |-> Byte(first + i - 1)]

Min(x, y) == IF x < y THEN x ELSE y

\* Number of values of an unsigned int, for a reader with the given block
\* size.
UIntRangeOf(block_size) == UIntBlocks * block_size

\* Number of values of an unsigned int, for the reader of the model.
UIntRange == UIntRangeOf(BlockSize)

\* The value of x as a uint32_t: what is left of it in one unsigned int.
UInt32Of(x, block_size) == x % UIntRangeOf(block_size)

\* The same for the reader of the model.
UInt32(x) == UInt32Of(x, BlockSize)

\* The value of x as a uint64_t (two unsigned ints wide).
UInt64(x) == x % (UIntRange * UIntRange)

\* The value of x as an int: the same bits as UInt32(x), the upper half of
\* the values read as negative numbers.
Int32(x) == IF 2 * UInt32(x) >= UIntRange THEN UInt32(x) - UIntRange
                                           ELSE UInt32(x)

\* fetch_range(start, end) of either reader: a GET with "Range: start-end".
\* It fails without a curl handle, when the transfer fails (lost) and when
\* the server rejects a range that starts beyond the resource; otherwise
\* the server answers with the requested bytes the resource has.  A range
\* whose end lies before its start is no byte range: a server that does
\* not refuse it ignores the header and answers with the whole resource.
fetch_range(start, end, lost) ==
  IF ~curl_handle \/ lost \/ start >= content_length
  THEN [ok |-> FALSE, data |-> <<>>]
  ELSE IF end < start
  THEN [ok |-> TRUE, data |-> Bytes(0, content_length - 1)]
  ELSE [ok |-> TRUE, data |-> Bytes(start, Min(end, content_length - 1))]

\* What a reader call records in ret: the call, its result, the ranges it
\* fetched, the bytes it delivered, the position it started from, and, for
\* request_range, the result of the call before when that one was
\* request_range with the same arguments.
Ret(op, a, b, status, fetches, out) ==
  [op |-> op, a |-> a, b |-> b, status |-> status, fetches |-> fetches,
   out |-> out, pos0 |-> current_position,
   prev |-> IF op = "request_range" /\ ret.op = op /\ ret.a = a /\ ret.b = b
            THEN ret.status ELSE "none"]

\* ------------------------------------------------- the reader's mutex

\* A mutex that any thread can take at any time.
CanLock_always(m) == TRUE

\* Whether a std::mutex held by the threads m can be taken.
CanLock(m) == m = {}

\* The lock_guard at the start of a callback, for a thread that runs
\* concurrently with others: it takes the mutex and the callback starts on
\* the reader's state as it is now.
Enter(t) ==
  /\ ~aborted
  /\ t \notin mutex
  /\ CanLock(mutex)
  /\ mutex' = mutex \cup {t}
  /\ locals' = [locals EXCEPT ![t] = <<current_position, cache>>]
  /\ UNCHANGED <<reader, content_length, file_size, current_position, cache,
                 curl_handle, ndebug, aborted, ret, tileVars, obsVars>>

\* The lock_guard of a callback whose body is one step: the body is that of
\* a thread that has taken the mutex, which the return releases; when no
\* thread has, the caller takes and releases the free mutex within the
\* step.
lock_guard ==
  IF mutex = {}
  THEN UNCHANGED threadVars
  ELSE \E t \in mutex :
         /\ mutex' = mutex \ {t}
         /\ locals' = [locals EXCEPT ![t] = <<>>]

\* --------------------------------------- HttpReader: the list of ranges

RECURSIVE CoveringRange(_, _, _)
\* Index of the first range of c at or after i that holds byte pos, 0 when
\* there is none (the search loop of cb_read).
CoveringRange(c, pos, i) ==
  IF i > Len(c) THEN 0
  ELSE IF pos >= c[i].start /\ pos < c[i].start + Len(c[i].data) THEN i
  ELSE CoveringRange(c, pos, i + 1)

\* A fetch of everything from pos to the end of the resource.
FetchEnd_to_end(pos, length) == length - 1

\* fetch_end of HttpReader's cb_read: the last byte of a chunk that starts
\* at pos, clamped to the last byte of the resource.
FetchEnd(pos, length) == Min(pos + ChunkSize - 1, length - 1)

RECURSIVE ReadLoop(_, _, _, _, _, _)
\* The while loop of HttpReader::cb_read: copy from the range holding pos,
\* or fetch a chunk starting at pos and append it to the cache.  failAt is
\* the number of the fetch whose transfer fails (0: none does).
ReadLoop(c, pos, remaining, out, fetches, failAt) ==
  IF remaining = 0
  THEN [status |-> "size_reached", cache |-> c, pos |-> pos, out |-> out,
        fetches |-> fetches]
  ELSE
    LET i == CoveringRange(c, pos, 1)
    IN  IF i # 0
        THEN LET offset == pos - c[i].start
                 available == Len(c[i].data) - offset
                 to_copy == Min(remaining, available)
             IN  ReadLoop(c, pos + to_copy, remaining - to_copy,
                          out \o SubSeq(c[i].data, offset + 1, offset + to_copy),
                          fetches, failAt)
        ELSE LET fetch_start == pos
                 fetch_end == FetchEnd(pos, file_size)
                 f == fetch_range(fetch_start, fetch_end,
                                  Len(fetches) + 1 = failAt)
                 fs == Append(fetches, <<fetch_start, fetch_end>>)
             IN  IF ~f.ok
                 THEN [status |-> "beyond_eof", cache |-> c, pos |-> pos,
                       out |-> out, fetches |-> fs]
                 ELSE ReadLoop(Append(c, [start |-> fetch_start, data |-> f.data]),
                               pos, remaining, out, fs, failAt)

\* init without its assignment of -1: the size found before stays.
SizeReset_none(before) == before

\* The size HttpReader::init starts from: whatever it was before, init
\* assigns -1 before it asks the server.
SizeReset(before) == -1

\* HttpReader::init: probe the resource with a HEAD request.  probe is what
\* the probe gives: "ok", "failed" (no curl handle, or the request failed)
\* or "no_length" (no positive Content-Length).
init(probe) ==
  /\ reader = "list"
  /\ ~aborted
  /\ file_size' = IF probe = "ok" THEN content_length ELSE SizeReset(file_size)
  /\ current_position' = 0
  /\ cache' = <<>>
  /\ curl_handle' = (probe = "ok")
  /\ ret' = Ret("init", 0, 0, IF probe = "ok" THEN "ok" ELSE "error",
              <<>>, <<>>)
  /\ UNCHANGED <<reader, content_length, ndebug, aborted, tileVars, obsVars,
                 threadVars>>

\* The position stored wherever the loop of cb_read has got to, also when
\* it was left by a failed fetch.
PositionAfterRead_partial(status, pos, before) == pos

\* current_position after the loop of HttpReader's cb_read: the assignment
\* stands behind the loop, which a failed fetch leaves by a return.
PositionAfterRead(status, pos, before) ==
  IF status = "size_reached" THEN pos ELSE before

\* The test with a read that ends one byte past the resource let through.
ReadBeyondEof_off_by_one(position, size, length) ==
  position + size > length + 1

\* The first test of HttpReader's cb_read: the read ends past the resource.
ReadBeyondEof(position, size, length) == position + size > length

\* HttpReader::cb_read(data, size).
cb_read(size, failAt) ==
  /\ reader = "list"
  /\ ~aborted
  /\ IF ReadBeyondEof(current_position, size, file_size)
     THEN /\ ret' = Ret("read", size, 0, "beyond_eof", <<>>, <<>>)
          /\ UNCHANGED <<current_position, cache>>
     ELSE LET r == ReadLoop(cache, current_position, size, <<>>, <<>>, failAt)
          IN  /\ ret' = Ret("read", size, 0, r.status, r.fetches, r.out)
              /\ cache' = r.cache
              /\ current_position' =
                   PositionAfterRead(r.status, r.pos, current_position)
  /\ Len(cache') <= MaxSpans
  /\ UNCHANGED <<reader, content_length, file_size, curl_handle, ndebug,
                 aborted, tileVars, obsVars>>
  /\ lock_guard

\* The test with the end of the resource itself refused.
SeekRejected_strict(position, size) == position < 0 \/ position >= size

\* The test with one position past the end accepted.
SeekRejected_lax(position, size) == position < 0 \/ position > size + 1

\* The test of cb_seek that refuses a position.
SeekRejected(position, size) == position < 0 \/ position > size

\* cb_seek(position) of either reader.
SeekCore(position) ==
  /\ ~aborted
  /\ IF SeekRejected(position, file_size)
     THEN /\ ret' = Ret("seek", position, 0, "error", <<>>, <<>>)
          /\ UNCHANGED current_position
     ELSE /\ ret' = Ret("seek", position, 0, "ok", <<>>, <<>>)
          /\ current_position' = position
  /\ UNCHANGED <<reader, content_length, file_size, cache, curl_handle,
                 ndebug, aborted, tileVars, obsVars>>
  /\ lock_guard

\* HttpReader::cb_seek.
cb_seek(position) == reader = "list" /\ SeekCore(position)

\* The search loop with a test of the range's first byte only.
RangeCached_start(c, start, end) ==
  \E i \in 1..Len(c) :
    start >= c[i].start /\ start < c[i].start + Len(c[i].data)

\* Whether one range of c holds every byte of [start, end) (the search
\* loop of HttpReader::cb_request_range).
RangeCached(c, start, end) ==
  LET last_byte == IF end > 0 THEN end - 1 ELSE 0
  IN  \E i \in 1..Len(c) :
        start >= c[i].start /\ last_byte < c[i].start + Len(c[i].data)

\* HttpReader::cb_request_range(start, end).
cb_request_range(start, end, lost) ==
  /\ reader = "list"
  /\ ~aborted
  /\ start < end
  /\ LET last_byte == IF end > 0 THEN end - 1 ELSE 0
         f == fetch_range(start, last_byte, lost)
     IN  IF RangeCached(cache, start, end)
         THEN /\ ret' = Ret("request_range", start, end, "size_reached", <<>>, <<>>)
              /\ UNCHANGED cache
         ELSE IF ~f.ok
         THEN /\ ret' = Ret("request_range", start, end, "error",
                            <<<<start, last_byte>>>>, <<>>)
              /\ UNCHANGED cache
         ELSE /\ ret' = Ret("request_range", start, end, "size_reached",
                            <<<<start, last_byte>>>>, <<>>)
              /\ cache' = Append(cache, [start |-> start, data |-> f.data])
  /\ Len(cache') <= MaxSpans
  /\ UNCHANGED <<reader, content_length, file_size, current_position,
                 curl_handle, ndebug, aborted, tileVars, obsVars>>
  /\ lock_guard

\* The removal of every range that has a byte in [start, end].
ReleaseRanges_overlap(c, start, end) ==
  SelectSeq(c, LAMBDA r :
    ~(r.start <= end /\ r.start + Len(r.data) - 1 >= start))

\* The ranges of c that do not lie within [start, end] (the std::remove_if
\* of HttpReader::cb_release_file_range).
ReleaseRanges(c, start, end) ==
  SelectSeq(c, LAMBDA r :
    ~(r.start >= start /\ r.start + Len(r.data) - 1 <= end))

\* HttpReader::cb_release_file_range(start, end).
cb_release_file_range(start, end) ==
  /\ reader = "list"
  /\ ~aborted
  /\ cache' = ReleaseRanges(cache, start, end)
  /\ ret' = Ret("release_file_range", start, end, "ok", <<>>, <<>>)
  /\ UNCHANGED <<reader, content_length, file_size, current_position,
                 curl_handle, ndebug, aborted, tileVars, obsVars>>
  /\ lock_guard

\* HttpReader's cb_get_position: ret.out holds the position returned.
cb_get_position ==
  /\ reader = "list"
  /\ ~aborted
  /\ ret' = Ret("get_position", 0, 0, "ok", <<>>, <<current_position>>)
  /\ UNCHANGED <<reader, content_length, file_size, current_position, cache,
                 curl_handle, ndebug, aborted, tileVars, obsVars>>
  /\ lock_guard

\* The RangeInfo list HttpReader::get_cached_ranges builds: start and size
\* of every range, in the order of the cache.
CachedRanges(c) == [i \in 1..Len(c) |-> <<c[i].start, Len(c[i].data)>>]

\* HttpReader::get_cached_ranges: ret.out holds the list returned.
get_cached_ranges ==
  /\ reader = "list"
  /\ ~aborted
  /\ ret' = Ret("get_cached_ranges", 0, 0, "ok", <<>>, CachedRanges(cache))
  /\ UNCHANGED <<reader, content_length, file_size, current_position, cache,
                 curl_handle, ndebug, aborted, tileVars, obsVars>>
  /\ lock_guard

\* ------------------------------- HttpReader_BlockCache: the list of blocks

\* Block b of the cache (blocks are numbered from 0 in the code).
Block(c, b) == c[b + 1]

\* Whether every block of first..last holds data (the search loop of
\* HttpReader_BlockCache's cb_read).
BlocksFilled(c, first, last) == \A b \in first..last : Block(c, b) # <<>>

RECURSIVE BlockCopy(_, _, _, _, _, _)
\* The copy loop of HttpReader_BlockCache's cb_read over blocks b..last.
BlockCopy(c, b, last, pos, remaining, out) ==
  IF b > last THEN [pos |-> pos, out |-> out]
  ELSE LET block_start_pos == Int32(UInt32(b * BlockSize))
           block_end_pos == Int32(UInt32(block_start_pos + BlockSize))
           max_block_copy == Int32(UInt64(block_end_pos - pos))
           to_copy == Min(remaining, max_block_copy)
           offset_in_block == Int32(UInt64(pos - block_start_pos))
       IN  BlockCopy(c, b + 1, last, pos + to_copy, remaining - to_copy,
                     out \o SubSeq(Block(c, b), offset_in_block + 1,
                                   offset_in_block + to_copy))

\* The block list init allocates for a resource of the given length: one
\* empty block per started block_size bytes.
EmptyBlocks(length, block_size) ==
  [b \in 1..((length + block_size - 1) \div block_size) |-> <<>>]

\* The size HttpReader_BlockCache::init starts from: it assigns -1 before it
\* asks the server.
SizeReset_bc(before) == -1

\* HttpReader_BlockCache::init.
init_bc(probe) ==
  /\ reader = "block"
  /\ ~aborted
  /\ file_size' = IF probe = "ok" THEN content_length
                                  ELSE SizeReset_bc(file_size)
  /\ current_position' = 0
  /\ cache' = IF probe = "ok"
              THEN EmptyBlocks(content_length, BlockSize)
              ELSE <<>>
  /\ curl_handle' = (probe = "ok")
  /\ ret' = Ret("init", 0, 0, IF probe = "ok" THEN "ok" ELSE "error",
              <<>>, <<>>)
  /\ UNCHANGED <<reader, content_length, ndebug, aborted, tileVars, obsVars,
                 threadVars>>

\* The first test of HttpReader_BlockCache's cb_read: the read ends past the
\* resource.
ReadBeyondEof_bc(position, size, length) == position + size > length

\* HttpReader_BlockCache's cb_read(data, size), size >= 1.  When a block is
\* missing it fetches a chunk, keeps nothing of it and runs into
\* assert(false): the process aborts, or, in a build with NDEBUG, the call
\* goes on to its last two lines and returns size_reached.
cb_read_bc(size, lost) ==
  /\ reader = "block"
  /\ ~aborted
  /\ LET pos == current_position
         first_block == pos \div BlockSize
         last_block == (pos + size - 1) \div BlockSize
         fetch_end == Min(pos + ChunkSize - 1, file_size - 1)
         f == fetch_range(pos, fetch_end, lost)
         cp == BlockCopy(cache, first_block, last_block, pos, size, <<>>)
     IN  IF ReadBeyondEof_bc(current_position, size, file_size)
         THEN /\ ret' = Ret("read", size, 0, "beyond_eof", <<>>, <<>>)
              /\ UNCHANGED <<current_position, aborted>>
         ELSE IF BlocksFilled(cache, first_block, last_block)
         THEN /\ ret' = Ret("read", size, 0, "size_reached", <<>>, cp.out)
              /\ current_position' = cp.pos
              /\ UNCHANGED aborted
         ELSE IF ~f.ok
         THEN /\ ret' = Ret("read", size, 0, "beyond_eof",
                            <<<<pos, fetch_end>>>>, <<>>)
              /\ UNCHANGED <<current_position, aborted>>
         ELSE IF ~ndebug
         THEN /\ ret' = Ret("read", size, 0, "aborted",
                            <<<<pos, fetch_end>>>>, <<>>)
              /\ aborted' = TRUE
              /\ UNCHANGED current_position
         ELSE /\ ret' = Ret("read", size, 0, "size_reached",
                            <<<<pos, fetch_end>>>>, <<>>)
              /\ current_position' = pos
              /\ UNCHANGED aborted
  /\ UNCHANGED <<reader, content_length, file_size, cache, curl_handle,
                 ndebug, tileVars, obsVars>>
  /\ lock_guard

\* HttpReader_BlockCache's cb_seek.
cb_seek_bc(position) == reader = "block" /\ SeekCore(position)

\* The first while loop left out: nothing is trimmed from the front.
TrimFront_none(c, start_block, last_block) == start_block

RECURSIVE TrimFront(_, _, _)
\* The first block of start_block..last_block that is empty, last_block + 1
\* when none is (the first while loop of cb_request_range).
TrimFront(c, start_block, last_block) ==
  IF start_block <= last_block /\ Block(c, start_block) # <<>>
  THEN TrimFront(c, start_block + 1, last_block)
  ELSE start_block

\* The second while loop left out: nothing is trimmed from the back.
TrimBack_none(c, start_block, last_block) == last_block

RECURSIVE TrimBack(_, _, _)
\* The last block of start_block..last_block that is empty (the second
\* while loop of cb_request_range).
TrimBack(c, start_block, last_block) ==
  IF start_block <= last_block /\ Block(c, last_block) # <<>>
  THEN TrimBack(c, start_block, last_block - 1)
  ELSE last_block

\* The slicing loop with a bound that leaves out the last block.
StoreBlocks_short(c, start_block, last_block, fetched_data) ==
  [b \in 1..Len(c) |->
     IF b - 1 >= start_block /\ b - 1 < last_block
     THEN LET block_data_offset == (b - 1 - start_block) * BlockSize
              bytes_to_copy == Min(BlockSize,
                                   Len(fetched_data) - block_data_offset)
          IN  SubSeq(fetched_data, block_data_offset + 1,
                     block_data_offset + bytes_to_copy)
     ELSE c[b]]

\* The cache after fetched_data is sliced into blocks
\* start_block..last_block of block_size bytes (the for loop of
\* cb_request_range).
SliceIntoBlocks(c, start_block, last_block, fetched_data, block_size) ==
  [b \in 1..Len(c) |->
     IF b - 1 >= start_block /\ b - 1 <= last_block
     THEN LET block_data_offset == (b - 1 - start_block) * block_size
              bytes_to_copy == Min(block_size,
                                   Len(fetched_data) - block_data_offset)
          IN  SubSeq(fetched_data, block_data_offset + 1,
                     block_data_offset + bytes_to_copy)
     ELSE c[b]]

\* The slicing with the reader's block size.
StoreBlocks(c, start_block, last_block, fetched_data) ==
  SliceIntoBlocks(c, start_block, last_block, fetched_data, BlockSize)

\* What cb_request_range computes before it fetches: the blocks of
\* [start, end) trimmed of filled blocks at both ends, and the bytes
\* [start, end) it will ask for (nothing when start_block > last_block).
\* The two offsets are products and sums of an int and a uint32_t, which
\* the code computes in an unsigned int before it widens them.
RequestBlocks(c, start, end, block_size, length) ==
  LET last_byte == IF end > 0 THEN end - 1 ELSE 0
      start_block == TrimFront(c, start \div block_size,
                               last_byte \div block_size)
      last_block == TrimBack(c, start_block, last_byte \div block_size)
      block_end == UInt32Of(UInt32Of(last_block * block_size, block_size)
                            + block_size, block_size)
  IN  [start_block |-> start_block, last_block |-> last_block,
       start |-> UInt32Of(start_block * block_size, block_size),
       end |-> IF block_end > length THEN length ELSE block_end]

\* HttpReader_BlockCache's cb_request_range(start, end), called with a range
\* whose blocks exist: the code indexes the block list with
\* start / block_size and (end - 1) / block_size without a check.
cb_request_range_bc(start, end, lost) ==
  /\ reader = "block"
  /\ ~aborted
  /\ start < end
  /\ (end - 1) \div BlockSize < Len(cache)
  /\ LET rb == RequestBlocks(cache, start, end, BlockSize, file_size)
         start_block == rb.start_block
         last_block == rb.last_block
         fstart == rb.start
         fend == rb.end
         last_byte == UInt64(fend - 1)
         f == fetch_range(fstart, last_byte, lost)
     IN  IF start_block > last_block
         THEN /\ ret' = Ret("request_range", start, end, "size_reached", <<>>, <<>>)
              /\ UNCHANGED cache
         ELSE IF ~f.ok
         THEN /\ ret' = Ret("request_range", start, end, "error",
                            <<<<fstart, last_byte>>>>, <<>>)
              /\ UNCHANGED cache
         ELSE /\ ret' = Ret("request_range", start, end, "size_reached",
                            <<<<fstart, last_byte>>>>, <<>>)
              /\ cache' = StoreBlocks(cache, start_block, last_block, f.data)
  /\ UNCHANGED <<reader, content_length, file_size, current_position,
                 curl_handle, ndebug, aborted, tileVars, obsVars>>
  /\ lock_guard

\* HttpReader_BlockCache's cb_release_file_range: its body is compiled out.
cb_release_file_range_bc(start, end) ==
  /\ reader = "block"
  /\ ~aborted
  /\ ret' = Ret("release_file_range", start, end, "ok", <<>>, <<>>)
  /\ UNCHANGED <<reader, content_length, file_size, current_position, cache,
                 curl_handle, ndebug, aborted, tileVars, obsVars>>
  /\ lock_guard

\* HttpReader_BlockCache's cb_get_position.
cb_get_position_bc ==
  /\ reader = "block"
  /\ ~aborted
  /\ ret' = Ret("get_position", 0, 0, "ok", <<>>, <<current_position>>)
  /\ UNCHANGED <<reader, content_length, file_size, current_position, cache,
                 curl_handle, ndebug, aborted, tileVars, obsVars>>
  /\ lock_guard

\* The RangeInfo list HttpReader_BlockCache::get_cached_ranges builds: for
\* every block that holds data, in order, the block's start and
\* m_block_size.
CachedBlocks(c) ==
  LET filled == SelectSeq([b \in 1..Len(c) |-> b - 1],
                          LAMBDA b : Block(c, b) # <<>>)
  IN  [i \in 1..Len(filled) |-> <<filled[i] * BlockSize, BlockSize>>]

\* HttpReader_BlockCache::get_cached_ranges.
get_cached_ranges_bc ==
  /\ reader = "block"
  /\ ~aborted
  /\ ret' = Ret("get_cached_ranges", 0, 0, "ok", <<>>, CachedBlocks(cache))
  /\ UNCHANGED <<reader, content_length, file_size, current_position, cache,
                 curl_handle, ndebug, aborted, tileVars, obsVars>>
  /\ lock_guard

\* --------------------------------------------- specifications of the readers

\* A reader of either class as constructed, a resource of any length, a
\* build with or without NDEBUG (http_reader.cc has no assert, so that
\* the build makes no difference to the interval-list reader).
InitReaders ==
  /\ InitTiles
  /\ InitReaderObject
  /\ \/ /\ reader = "list"
        /\ content_length \in 1..MaxListFileSize
        /\ ndebug = FALSE
     \/ /\ reader = "block"
        /\ content_length \in 1..MaxFileSize
        /\ ndebug \in BOOLEAN

\* What the HEAD request of init can give.
Probes == {"ok", "failed", "no_length"}

\* Any call on an HttpReader through its heif_reader callbacks.
NextHttpReader ==
  \/ \E probe \in Probes : init(probe)
  \/ \E size \in 0..MaxReadSize, failAt \in 0..MaxReadSize :
       cb_read(size, failAt)
  \/ \E position \in (-1)..(MaxListFileSize + 1) : cb_seek(position)
  \/ \E start \in 0..MaxListFileSize, end \in 1..(MaxListFileSize + 1),
        lost \in BOOLEAN :
       cb_request_range(start, end, lost)
  \/ \E start \in 0..MaxListFileSize, end \in 0..MaxListFileSize :
       cb_release_file_range(start, end)
  \/ cb_get_position
  \/ get_cached_ranges

\* Any call on an HttpReader_BlockCache through its heif_reader callbacks
\* (release_file_range does not read its arguments: two values of each
\* stand for all).
NextBlockCache ==
  \/ \E probe \in Probes : init_bc(probe)
  \/ \E size \in 1..MaxReadSize, lost \in BOOLEAN : cb_read_bc(size, lost)
  \/ \E position \in (-1)..(MaxFileSize + 1) : cb_seek_bc(position)
  \/ \E start \in 0..MaxFileSize, end \in 1..(MaxFileSize + 1),
        lost \in BOOLEAN :
       cb_request_range_bc(start, end, lost)
  \/ \E start \in {0, MaxFileSize}, end \in {0, MaxFileSize} :
       cb_release_file_range_bc(start, end)
  \/ cb_get_position_bc
  \/ get_cached_ranges_bc

\* An HttpReader as constructed.
InitHttpReader ==
  /\ InitReaders
  /\ reader = "list"

\* The interval-list reader alone.
SpecHttpReader == InitHttpReader /\ [][NextHttpReader]_vars

\* An HttpReader_BlockCache as constructed.
InitBlockCache ==
  /\ InitReaders
  /\ reader = "block"

\* The fixed-block reader alone.
SpecBlockCache == InitBlockCache /\ [][NextBlockCache]_vars

\* A reader of either class.
NextReaders ==
  \/ NextHttpReader
  \/ NextBlockCache

SpecReaders == InitReaders /\ [][NextReaders]_vars

\* A reader of either class after a successful init, about to be used by
\* several threads.
InitThreads ==
  /\ InitTiles
  /\ reader \in {"list", "block"}
  /\ content_length \in 1..MaxListFileSize
  /\ ndebug = FALSE
  /\ file_size = content_length
  /\ current_position = 0
  /\ cache = IF reader = "list" THEN <<>>
                                ELSE EmptyBlocks(content_length, BlockSize)
  /\ curl_handle = TRUE
  /\ aborted = FALSE
  /\ ret = NoCall
  /\ mutex = {}
  /\ locals = [t \in Threads |-> <<>>]

\* A thread takes the reader's mutex, or a callback runs: the one of the
\* thread that holds the mutex, or, when the mutex is free, one that takes
\* and releases it within the step.
NextThreads ==
  \/ \E t \in Threads : Enter(t)
  \/ \E size \in 0..MaxReadSize, failAt \in 0..MaxReadSize :
       cb_read(size, failAt)
  \/ \E position \in (-1)..(MaxListFileSize + 1) : cb_seek(position)
  \/ \E start \in 0..MaxListFileSize, end \in 1..(MaxListFileSize + 1),
        lost \in BOOLEAN :
       cb_request_range(start, end, lost)
  \/ \E start \in 0..MaxListFileSize, end \in 0..MaxListFileSize :
       cb_release_file_range(start, end)
  \/ cb_get_position
  \/ get_cached_ranges
  \/ \E size \in 1..MaxReadSize, lost \in BOOLEAN : cb_read_bc(size, lost)
  \/ \E position \in (-1)..(MaxListFileSize + 1) : cb_seek_bc(position)
  \/ \E start \in 0..MaxListFileSize, end \in 1..(MaxListFileSize + 1),
        lost \in BOOLEAN :
       cb_request_range_bc(start, end, lost)
  \/ \E start \in {0, MaxListFileSize}, end \in {0, MaxListFileSize} :
       cb_release_file_range_bc(start, end)
  \/ cb_get_position_bc
  \/ get_cached_ranges_bc

\* One reader called from several threads.
SpecThreads == InitThreads /\ [][NextThreads]_vars

\* ------------------------------------------------ claims on the tile side

\* Worker w has called m_callback and the call has not returned.
InCallback(w) == wpc[w] \in {"callback", "decode"}

\* Key k has an entry in the request queue.
InQueue(k) == \E i \in 1..Len(m_queue) : m_queue[i].key = k

\* C1: at no moment are two workers inside the decode callback for the
\* same tile key.
C1_OneCallbackPerKey ==
  \A v, w \in Workers :
    (v # w /\ InCallback(v) /\ InCallback(w)) => wreq[v].key # wreq[w].key

\* The request queue holds no two entries with the same key.
QueueNoDup ==
  \A i, j \in 1..Len(m_queue) : i # j => m_queue[i].key # m_queue[j].key

\* What a queue_tile(k) step does to the queue: a queued key keeps the
\* queue's length and order and only gets its wanted flag set; a key that
\* is not queued is inserted at the front, wanted.
QueueTileEffect ==
  \A k \in CallerKeys :
    QueueTile(k) =>
      IF InQueue(k)
      THEN /\ Len(m_queue') = Len(m_queue)
           /\ \A i \in 1..Len(m_queue) :
                /\ m_queue'[i].key = m_queue[i].key
                /\ m_queue'[i].wanted = (m_queue[i].wanted \/ m_queue[i].key = k)
      ELSE m_queue' = <<[key |-> k, wanted |-> TRUE]>> \o m_queue

\* C2: the queue never holds a key twice, and every queue_tile step either
\* only sets the wanted flag of the queued entry or inserts one wanted
\* entry at the front.
C2_QueueTileDedup == []QueueNoDup /\ [][QueueTileEffect]_vars

\* A wanted entry behind an unwanted one: queue_tile has set the flag of an
\* entry that was already queued, in place.
C2_Witness ==
  \E i, j \in 1..Len(m_queue) :
    i < j /\ ~m_queue[i].wanted /\ m_queue[j].wanted

\* The entry the selection rule names: the wanted entry nearest the front,
\* the front entry when none is wanted.
RuleIndex(q) ==
  LET W == {i \in 1..Len(q) : q[i].wanted}
  IN  IF W # {} THEN CHOOSE i \in W : \A j \in W : i <= j ELSE 1

\* Every pick takes the entry the rule names and removes exactly it.
PickFollowsRule ==
  \A w \in Workers :
    ScenarioPick(w) =>
      LET i == RuleIndex(m_queue)
      IN  /\ wreq'[w] = m_queue[i]
          /\ m_queue' = SubSeq(m_queue, 1, i - 1) \o SubSeq(m_queue, i + 1, Len(m_queue))

\* The picks made after the caller's eight calls (queue 1..5, mark all
\* unwanted, queue 2 and 4 again) come in the order 4, 2, 5, 3, 1.
ScenarioOrder ==
  (\A i \in 1..Len(pickLog) : pickLog[i].calls = 8) =>
    /\ Len(pickLog) <= 5
    /\ \A i \in 1..Len(pickLog) : pickLog[i].key = <<4, 2, 5, 3, 1>>[i]

\* C3: a worker picks the first wanted entry from the front, else the front
\* entry; with requests 1..5 queued in that order and only 2 and 4 wanted
\* the picks are 4, 2, 5, 3, 1.
C3_PickOrder == [][PickFollowsRule]_vars /\ []ScenarioOrder

\* All five requests were picked after the caller's last call.
C3_Witness ==
  /\ Len(pickLog) = 5
  /\ \A i \in 1..Len(pickLog) : pickLog[i].calls = 8

\* No step is a queue_tile call that changes the queue.
NoQueueTile == ~(\E k \in CallerKeys : QueueTile(k))

\* C4: once queue_tile is called no more, the queue drains for good, wanted
\* or not (unless shutdown is called).
C4_Drains == <>[][NoQueueTile]_vars => <>[](m_queue = <<>> \/ m_shutdown)

\* A worker runs a request it picked although it was unwanted, and the
\* queue is empty.
C4_Witness ==
  /\ ~m_shutdown
  /\ m_queue = <<>>
  /\ \E w \in Workers : InCallback(w) /\ ~wreq[w].wanted

\* C5 as stated: every queued key is eventually picked, whatever the caller
\* does later (unless shutdown is called).
C5_NoStarvation ==
  \A k \in CallerKeys : InQueue(k) ~> (~InQueue(k) \/ m_shutdown)

\* No step inserts a new entry into the queue.
NoNewEntry == Len(m_queue') <= Len(m_queue)

\* C5 as amended: every queued key is eventually picked provided that from
\* some moment on no new entry is inserted; calls that re-mark queued keys
\* and calls of mark_all_unwanted may go on for ever.
C5_NoStarvationOnceInsertsStop ==
  <>[][NoNewEntry]_vars =>
    \A k \in CallerKeys : InQueue(k) ~> (~InQueue(k) \/ m_shutdown)

\* A worker runs a request it picked by the fall-back rule while the
\* caller has made further queue_tile calls whose entries are queued.
C5_Witness ==
  /\ ~m_shutdown
  /\ m_queue # <<>>
  /\ \A i \in 1..Len(m_queue) : m_queue[i].wanted
  /\ \E w \in Workers : InCallback(w) /\ ~wreq[w].wanted

\* C6: a shutdown that has started returns, and once it has returned every
\* worker thread has exited for good, whatever is queued afterwards.
C6_Shutdown ==
  /\ (shpc = "joining") ~> (shpc = "returned")
  /\ [](shpc = "returned" => \A w \in Workers : wpc[w] = "exited")

\* shutdown has returned and requests are queued that no worker will run.
C6_Witness ==
  /\ shpc = "returned"
  /\ m_queue # <<>>
  /\ \A w \in Workers : wpc[w] = "exited"

\* C7: when shutdown has returned the request queue is empty.
C7_QueueClearedByShutdown == shpc = "returned" => m_queue = <<>>

\* ---------------------------------------------- claims on the HTTP readers

\* C8: a read of n bytes at position p that returns success has delivered
\* the resource's bytes [p, p + n) and has left the position at p + n.
C8_ReadDeliversBytes ==
  (ret.op = "read" /\ ret.status = "size_reached")
    => /\ ret.out = Bytes(ret.pos0, ret.pos0 + ret.a - 1)
       /\ current_position = ret.pos0 + ret.a

\* What C8 says, for the interval-list reader alone.
ListReadDeliversBytes == reader = "list" => C8_ReadDeliversBytes

\* A read of the interval-list reader that took bytes from the cache and
\* from two fetched chunks.
ListReadWitness ==
  /\ reader = "list"
  /\ ret.op = "read" /\ ret.status = "size_reached"
  /\ Len(ret.fetches) = 1 /\ Len(ret.out) > ChunkSize

\* C9: when request_range(a, b) has returned success and is called again
\* with the same range, no other call in between, the second call
\* performs no fetch.
C9_SecondRequestNoFetch ==
  (ret.op = "request_range" /\ ret.prev = "size_reached")
    => ret.fetches = <<>>

\* What C9 says, for ranges that end within the resource.
SecondRequestInsideNoFetch ==
  (ret.op = "request_range" /\ ret.prev = "size_reached"
     /\ ret.b <= content_length)
    => ret.fetches = <<>>

\* What C9 says, for the fixed-block reader alone.
BlockSecondRequestNoFetch == reader = "block" => C9_SecondRequestNoFetch

\* The length block b of the fixed-block reader has when it is filled.
BlockLength(b) == Min(BlockSize, file_size - b * BlockSize)

EmptyAmong(c, first, last) == {b \in first..last : Block(c, b) = <<>>}

\* The least and the greatest member of a non-empty set of numbers.
Least(S) == CHOOSE x \in S : \A y \in S : x <= y
Greatest(S) == CHOOSE x \in S : \A y \in S : x >= y

\* A request_range(start, end) step of the fixed-block reader (ret' records
\* the call and its arguments) fetches nothing when every block of the
\* range is filled, and otherwise one span: from the start of the first
\* empty block of the range to the end of its last empty block or the end
\* of the resource.
FetchesTrimmedSpan ==
  (reader = "block" /\ ret'.op = "request_range") =>
    LET E == EmptyAmong(cache, ret'.a \div BlockSize,
                        (ret'.b - 1) \div BlockSize)
    IN  IF E = {}
        THEN ret'.fetches = <<>>
        ELSE ret'.fetches =
               <<<<Least(E) * BlockSize,
                   Min((Greatest(E) + 1) * BlockSize, file_size) - 1>>>>

\* The reader of the example: 1,000,000 bytes in blocks of 65536 bytes.
Example == [length |-> 1000000, block_size |-> 65536]

\* The example's first call, request_range(0, 70000), on empty blocks.
ExampleFirst ==
  RequestBlocks(EmptyBlocks(Example.length, Example.block_size), 0, 70000,
                Example.block_size, Example.length)

\* The blocks after the example's first call.
ExampleBlocks ==
  SliceIntoBlocks(EmptyBlocks(Example.length, Example.block_size),
                  ExampleFirst.start_block, ExampleFirst.last_block,
                  Bytes(ExampleFirst.start, ExampleFirst.end - 1),
                  Example.block_size)

\* The example's second call, request_range(60000, 70000).
ExampleSecond ==
  RequestBlocks(ExampleBlocks, 60000, 70000, Example.block_size,
                Example.length)

\* The first call fetches [0, 131072) and fills blocks 0 and 1, the second
\* call fetches nothing.
ExampleRequests ==
  /\ ExampleFirst.start_block <= ExampleFirst.last_block
  /\ ExampleFirst.start = 0 /\ ExampleFirst.end = 131072
  /\ Len(Block(ExampleBlocks, 0)) = Example.block_size
  /\ Len(Block(ExampleBlocks, 1)) = Example.block_size
  /\ ExampleSecond.start_block > ExampleSecond.last_block

FetchedBlocks(f) == (f[1] \div BlockSize)..(f[2] \div BlockSize)

Covered(c, start, end) ==
  \E i \in 1..Len(c) :
    c[i].start <= start /\ end <= c[i].start + Len(c[i].data)

\* A request_range(start, end) step of the interval-list reader (ret'
\* records the call and its arguments): it fetches exactly when no span
\* covers the range; what it asks for is [start, end); when the fetch
\* succeeds the cache is the old cache with one span appended, which starts
\* at start and holds the resource's bytes of the range; otherwise the
\* cache is the old cache; the position stays.
RequestRangeEffect ==
  (reader = "list" /\ ret'.op = "request_range") =>
    /\ (ret'.fetches # <<>>) <=> ~Covered(cache, ret'.a, ret'.b)
    /\ ret'.fetches # <<>> => ret'.fetches = <<<<ret'.a, ret'.b - 1>>>>
    /\ IF ret'.fetches # <<>> /\ ret'.status = "size_reached"
       THEN cache' = Append(cache,
                       [start |-> ret'.a,
                        data |-> Bytes(ret'.a,
                                       Min(ret'.b, content_length) - 1)])
       ELSE cache' = cache
    /\ current_position' = current_position

\* C13: request_range(start, end) of the interval-list reader fetches if
\* and only if no single cached span covers [start, end); it then asks
\* for exactly [start, end) and appends one span starting at start; the
\* spans it found and the position stay as they were.
C13_RequestRangeEffect == [][RequestRangeEffect]_vars

\* A request_range that fetched and appended a span although an older span
\* holds its first byte.
C13_Witness ==
  /\ reader = "list"
  /\ ret.op = "request_range" /\ ret.status = "size_reached"
  /\ ret.fetches # <<>>
  /\ Len(cache) = 2
  /\ cache[2].start = ret.a
  /\ cache[1].start <= ret.a /\ ret.a < cache[1].start + Len(cache[1].data)

\* --------------------------------------------------------------- claim C14

\* What a step that is a call of seek(p) does: it succeeds exactly when
\* 0 <= p <= total_length and then the position is p, otherwise the position
\* stays; it fetches nothing and leaves the cache alone.
SeekEffect ==
  ret'.op = "seek" =>
    /\ (ret'.status = "ok") <=> (0 <= ret'.a /\ ret'.a <= file_size)
    /\ ret'.status \in {"ok", "error"}
    /\ current_position' =
         IF ret'.status = "ok" THEN ret'.a ELSE current_position
    /\ ret'.fetches = <<>>
    /\ cache' = cache

\* C14: seek(p) succeeds iff 0 <= p <= total_length and sets the position to
\* p; otherwise it fails and the position is unchanged; in both readers it
\* fetches nothing and does not change the cache.
C14_SeekEffect == [][SeekEffect]_vars

\* A seek to the very end of the resource has succeeded and moved the
\* position while data was resident.
C14_Witness ==
  /\ ret.op = "seek"
  /\ ret.status = "ok"
  /\ ret.a = file_size
  /\ ret.pos0 # ret.a
  /\ current_position = file_size
  /\ \E i \in 1..Len(cache) : cache[i] # <<>>
\* --------------------------------------------------------------- claim C15

\* What a step that is a call of read(size) with position + size >
\* total_length does: it returns beyond-EOF, fetches nothing and leaves the
\* position and the cache alone.
ReadPastEndEffect ==
  (ret'.op = "read" /\ current_position + ret'.a > file_size) =>
    /\ ret'.status = "beyond_eof"
    /\ ret'.fetches = <<>>
    /\ ret'.out = <<>>
    /\ current_position' = current_position
    /\ cache' = cache

\* C15: in both readers a read with position + size > total_length returns
\* the beyond-EOF status without fetching and without changing the position
\* or the cache.
C15_ReadPastEnd == [][ReadPastEndEffect]_vars

\* A read that ends exactly one byte past the resource was refused on an
\* initialised reader that held data and whose position had moved.
C15_Witness ==
  /\ ret.op = "read"
  /\ file_size > 0
  /\ ret.pos0 > 0
  /\ ret.pos0 + ret.a = file_size + 1
  /\ ret.status = "beyond_eof"
  /\ \E i \in 1..Len(cache) : cache[i] # <<>>
\* --------------------------------------------------------------- claim C16

\* The position of an initialised reader lies within the resource, whose
\* length is the one the server reported.
PositionInRange ==
  file_size # -1 =>
    /\ 0 <= current_position
    /\ current_position <= file_size
    /\ file_size = content_length

\* A call of seek, read, request_range or release_range (any call but init)
\* leaves total_length as it is.
LengthKept == ret'.op # "init" => file_size' = file_size

\* C16: on an initialised reader 0 <= position <= total_length holds after
\* every sequence of seek, read, request_range and release_range calls, and
\* total_length never changes.
C16_PositionInRange == []PositionInRange /\ [][LengthKept]_vars

\* A read has delivered the last bytes of the resource: the position has
\* reached total_length.
C16_Witness ==
  /\ ret.op = "read"
  /\ ret.status = "size_reached"
  /\ ret.a > 0
  /\ ret.pos0 + ret.a = file_size
  /\ current_position = file_size
\* --------------------------------------------------------------- claim C17

\* What a step that is a call of init does: the position is 0 and no byte
\* is resident afterwards; a call that fails leaves total_length at -1, a
\* call that succeeds sets it to the positive length the server reported.
InitEffect ==
  ret'.op = "init" =>
    /\ current_position' = 0
    /\ \A i \in 1..Len(cache') : cache'[i] = <<>>
    /\ reader = "list" => cache' = <<>>
    /\ ret'.status \in {"ok", "error"}
    /\ ret'.status = "error" => file_size' = -1
    /\ ret'.status = "ok" => file_size' = content_length /\ file_size' > 0

\* On a reader whose total_length is -1 the last seek or read has failed
\* and delivered nothing.
UnknownSizeRefuses ==
  (file_size = -1 /\ ret.op \in {"seek", "read"}) =>
    /\ ret.status \in {"error", "beyond_eof"}
    /\ ret.out = <<>>
    /\ ret.fetches = <<>>
    /\ current_position = 0

\* C17: init resets the position to 0 and empties the cache, also on a used
\* reader; when the probe fails or reports no positive length, init fails,
\* total_length stays -1 and every later seek and read fails.
C17_InitResets == [][InitEffect]_vars /\ []UnknownSizeRefuses

\* A reader that had been used (its position had moved) was initialised
\* again without success: its position is 0 and its total_length -1.
C17_Witness ==
  /\ ret.op = "init"
  /\ ret.status = "error"
  /\ ret.pos0 > 0
  /\ current_position = 0
  /\ file_size = -1
\* --------------------------------------------------------------- claim C18

\* Whether every byte of the span r lies in the closed interval [start, end].
FullyInside(r, start, end) ==
  \A p \in r.start..(r.start + Len(r.data) - 1) : start <= p /\ p <= end

\* What a step that is a call of release_range(start, end) does: no fetch,
\* the position stays; the interval-list reader keeps, in their order,
\* exactly the spans that are not fully inside [start, end]; the fixed-block
\* reader keeps its blocks as they are.
ReleaseEffect ==
  ret'.op = "release_file_range" =>
    /\ ret'.fetches = <<>>
    /\ current_position' = current_position
    /\ file_size' = file_size
    /\ reader = "list" =>
         cache' = SelectSeq(cache,
                            LAMBDA r : ~FullyInside(r, ret'.a, ret'.b))
    /\ reader = "block" => cache' = cache

\* C18: release_range(start, end) performs no fetch and leaves the position
\* unchanged; the interval-list reader removes exactly the spans fully inside
\* [start, end]; the fixed-block reader changes nothing.
C18_ReleaseEffect == [][ReleaseEffect]_vars

\* After a release on the interval-list reader a span with bytes on both
\* sides of the released interval's end is still there.
C18_Witness ==
  /\ reader = "list"
  /\ ret.op = "release_file_range"
  /\ ret.a <= ret.b
  /\ \E i \in 1..Len(cache) :
       /\ cache[i].start <= ret.b
       /\ cache[i].start + Len(cache[i].data) - 1 > ret.b
       /\ cache[i].start >= ret.a

\* After a release over the whole resource every filled block of the
\* fixed-block reader is still filled.
C18_WitnessBlock ==
  /\ reader = "block"
  /\ ret.op = "release_file_range"
  /\ ret.a = 0
  /\ ret.b >= file_size
  /\ file_size > 0
  /\ \E i \in 1..Len(cache) : cache[i] # <<>>
\* --------------------------------------------------------------- claim C19

\* At most one thread is inside a callback of the reader.
MutualExclusion == Cardinality(mutex) <= 1

\* A thread that has taken the mutex and has not yet returned finds the
\* position and the cache as they were when it took the mutex: no other
\* call has acted in between.
NoInterference ==
  \A t \in mutex : locals[t] = <<current_position, cache>>

\* C19: get_position, seek, read, request_range, release_range and
\* get_cached_ranges called from different threads never interleave their
\* effects: each call runs alone, on the state it found when it took the
\* lock, so the execution is that of the calls in the order of their
\* taking the lock.
C19_Serialized == MutualExclusion /\ NoInterference

\* A thread has taken the mutex of a reader that earlier calls have moved
\* and filled, the last of them having fetched.
C19_Witness ==
  /\ mutex # {}
  /\ current_position > 0
  /\ \E i \in 1..Len(cache) : cache[i] # <<>>
  /\ ret.fetches # <<>>
\* --------------------------------------------------------------- claim C20

\* Whether byte p of the resource is held in the cache of the reader.
Resident(p) ==
  IF reader = "list"
  THEN \E i \in 1..Len(cache) :
         cache[i].start <= p /\ p < cache[i].start + Len(cache[i].data)
  ELSE /\ p \div BlockSize < Len(cache)
       /\ p % BlockSize < Len(Block(cache, p \div BlockSize))

\* The bytes of the span <<start, size>> that get_cached_ranges reports.
SpanBytes(span) == span[1]..(span[1] + span[2] - 1)

\* The list that get_cached_ranges has just returned names exactly the
\* resident bytes: each span lies inside [0, total_length) and holds only
\* resident bytes, and each resident byte lies in a span.
RangesExact ==
  ret.op = "get_cached_ranges" =>
    /\ \A i \in 1..Len(ret.out) :
         /\ 0 <= ret.out[i][1]
         /\ ret.out[i][1] + ret.out[i][2] <= file_size
         /\ \A p \in SpanBytes(ret.out[i]) : Resident(p)
    /\ \A p \in 0..(file_size - 1) :
         Resident(p) => \E i \in 1..Len(ret.out) : p \in SpanBytes(ret.out[i])

\* C20: get_cached_ranges changes no state and returns exactly the covered
\* bytes: every reported span lies inside [0, total_length) and consists of
\* resident bytes only, and every resident byte is in a reported span, in
\* the fixed-block reader also for the final, shorter block.
C20_RangesExact == RangesExact

\* The same for the interval-list reader alone.
ListRangesExact == reader = "list" => RangesExact

\* In the fixed-block reader every resident byte is reported, and every
\* reported span starts at a filled block.
BlockRangesCover ==
  (reader = "block" /\ ret.op = "get_cached_ranges") =>
    /\ \A p \in 0..(file_size - 1) :
         Resident(p) => \E i \in 1..Len(ret.out) : p \in SpanBytes(ret.out[i])
    /\ \A i \in 1..Len(ret.out) : Resident(ret.out[i][1])

\* A step that is a call of get_cached_ranges or get_position changes
\* nothing of the reader.
SnapshotReadOnly ==
  ret'.op \in {"get_cached_ranges", "get_position"} =>
    /\ UNCHANGED <<file_size, current_position, cache, curl_handle>>
    /\ ret'.fetches = <<>>

GetCachedRangesReadOnly == [][SnapshotReadOnly]_vars

\* get_cached_ranges of the fixed-block reader has reported the final block
\* of a resource whose length is no multiple of the block size.
ShortBlockReported ==
  /\ reader = "block"
  /\ ret.op = "get_cached_ranges"
  /\ file_size % BlockSize # 0
  /\ \E i \in 1..Len(ret.out) : ret.out[i][1] + ret.out[i][2] > file_size
\* --------------------------------------------------------------- claim C21

\* No two entries of the tile list have the same key.
TilesDistinct ==
  \A i \in 1..Len(tiles), j \in 1..Len(tiles) :
    tiles[i].key = tiles[j].key => i = j

\* C21: after any sequence of display passes, decode completions and
\* evictions the tile cache never holds two entries with the same
\* (x, y, layer) and never holds more than capacity entries.
C21_TilesDistinctAndBounded ==
  /\ TilesDistinct
  /\ Len(tiles) <= TileCacheSize

\* The tile list is full after an eviction: the load_tile thread that holds
\* loadmutex decodes a key whose entry is gone, and a decoded tile has been
\* drawn.
C21_Witness ==
  /\ Len(tiles) = TileCacheSize
  /\ loadmutex # 0
  /\ ~TileFound(tiles, loadmutex)
  /\ \E i \in 1..Len(tiles) : tiles[i].state = "ready"
\* --------------------------------------------------------------- claim C22

\* The keys of the entries of the tile list ts.
TileKeys(ts) == {ts[i].key : i \in 1..Len(ts)}

\* A step in which a display pass inserts a key that was not in the list.
InsertStep == touched' # <<>> /\ ~TileFound(tiles, touched'[1])

\* A step in which a display pass meets a key that is in the list.
TouchStep ==
  /\ touched' # touched
  /\ touched' # <<>>
  /\ TileFound(tiles, touched'[1])

\* An insert into a full list evicts exactly one entry, the one whose last
\* touch is the oldest; a touch leaves the number of entries as it is.
EvictsLeastRecentlyTouched ==
  /\ (InsertStep /\ Len(tiles) = TileCacheSize) =>
       /\ Len(tiles') = TileCacheSize
       /\ TileKeys(tiles') =
            (TileKeys(tiles) \ {touched[Len(touched)]}) \cup {touched'[1]}
  /\ TouchStep => Len(tiles') = Len(tiles)

\* C22: when the tile cache is full and a new key is inserted, exactly one
\* entry is evicted and it is the least recently touched one; touching a key
\* that is present never changes the number of entries.
C22_EvictsLeastRecentlyTouched == [][EvictsLeastRecentlyTouched]_vars

\* What the code does: an insert into a full list evicts exactly the entry
\* at the back of the list; a touch leaves the number of entries as it is.
EvictsBack ==
  /\ (InsertStep /\ Len(tiles) = TileCacheSize) =>
       /\ Len(tiles') = TileCacheSize
       /\ TileKeys(tiles') =
            (TileKeys(tiles) \ {tiles[Len(tiles)].key}) \cup {touched'[1]}
  /\ TouchStep => Len(tiles') = Len(tiles)

C22_EvictsBack == [][EvictsBack]_vars

\* The display pass has last met every key of the list that the list holds,
\* and no other.
TouchedInv ==
  /\ Len(touched) = Len(tiles)
  /\ {touched[i] : i \in 1..Len(touched)} = TileKeys(tiles)

\* The list is full and its back entry, a loading tile, is not the least
\* recently touched one.
C22_LoadingAtBackTouchedLast ==
  /\ Len(tiles) = TileCacheSize
  /\ tiles[Len(tiles)].state = "loading"
  /\ touched[Len(touched)] # tiles[Len(tiles)].key
\* --------------------------------------------------------------- claim C23

\* The number of load_tile threads that have been started and have not
\* returned.
Decodes == LiveLoads(loadThreads, 1) + (IF loadmutex = 0 THEN 0 ELSE 1)

\* What a display pass does with a key: a key in the list has its entry at
\* the front afterwards, in whatever state it was, and no thread is started;
\* an absent key gets a loading entry at the front and exactly one thread.
TouchOrCreate ==
  /\ TouchStep =>
       /\ tiles'[1].key = touched'[1]
       /\ Decodes' = Decodes
  /\ InsertStep =>
       /\ tiles'[1] = [key |-> touched'[1], state |-> "loading"]
       /\ loadThreads' =
            [loadThreads EXCEPT ![touched'[1]] = loadThreads[touched'[1]] + 1]
       /\ loadmutex' = loadmutex

\* C23: touching a key that is present moves its entry to the front whatever
\* its state and starts no decode; touching an absent key inserts a Loading
\* entry at the front and starts exactly one decode for it.
C23_TouchOrCreate == [][TouchOrCreate]_vars

\* What the code does: an entry that is met while loading stays where it is;
\* any other entry that is met, and a new entry, is at the front afterwards;
\* only a new entry starts a thread, exactly one.
TouchOrCreateUnlessLoading ==
  /\ TouchStep =>
       /\ Decodes' = Decodes
       /\ \A i \in 1..Len(tiles) :
            tiles[i].key = touched'[1] =>
              IF tiles[i].state = "loading"
              THEN tiles' = tiles
              ELSE tiles'[1] = [key |-> touched'[1], state |-> "ready"]
  /\ InsertStep =>
       /\ tiles'[1] = [key |-> touched'[1], state |-> "loading"]
       /\ loadThreads' =
            [loadThreads EXCEPT ![touched'[1]] = loadThreads[touched'[1]] + 1]
       /\ loadmutex' = loadmutex

C23_TouchOrCreateUnlessLoading == [][TouchOrCreateUnlessLoading]_vars

\* A display pass has just met a loading entry that is not at the front.
C23_LoadingNotMoved ==
  /\ Len(tiles) = 2
  /\ touched # <<>>
  /\ tiles[2].key = touched[1]
  /\ tiles[2].state = "loading"
\* --------------------------------------------------------------- claim C24

\* The state of the entry of key k in the tile list ts, "absent" when the
\* list has none.
StateOf(ts, k) ==
  IF TileFound(ts, k)
  THEN ts[CHOOSE i \in 1..Len(ts) : ts[i].key = k].state
  ELSE "absent"

\* A step in which a load_tile thread stores its image and returns.
CompletionStep == loadmutex # 0 /\ loadmutex' = 0

\* The changes of state an entry that stays in the list may go through: a
\* decode completion takes a loading entry to waiting_for_texture_upload
\* and changes no other entry; only the display pass takes an entry from
\* waiting_for_texture_upload to ready.
StateChangesInOrder ==
  \A k \in Keys :
    LET before == StateOf(tiles, k)
        after == StateOf(tiles', k)
    IN  /\ (before \notin {"absent", after} /\ after # "absent") =>
             \/ /\ before = "loading"
                /\ after = "waiting_for_texture_upload"
                /\ CompletionStep /\ loadmutex = k
             \/ /\ before = "waiting_for_texture_upload"
                /\ after = "ready"
                /\ ~CompletionStep
        /\ CompletionStep =>
             /\ before \in {"waiting_for_texture_upload", "ready"}
                  => after = before
             /\ before = "absent" => after = "absent"
             /\ k # loadmutex => after = before

\* C24: an entry's state only changes Loading -> PendingUpload, by a decode
\* completion applied to a Loading entry, and PendingUpload -> Ready, by the
\* render thread; a PendingUpload or Ready entry is never changed by a
\* completion, and a completion for a key not in the cache changes nothing.
C24_StateChangesInOrder == [][StateChangesInOrder]_vars

\* What the code does: a completion sets the entry of its key, in whatever
\* state it is, to waiting_for_texture_upload and changes no other entry;
\* a completion for a key without an entry changes nothing; the display
\* pass changes waiting_for_texture_upload to ready and nothing else.
StateChangesOfTheCode ==
  \A k \in Keys :
    LET before == StateOf(tiles, k)
        after == StateOf(tiles', k)
    IN  IF CompletionStep
        THEN /\ Len(tiles') = Len(tiles)
             /\ after = IF k = loadmutex /\ before # "absent"
                        THEN "waiting_for_texture_upload"
                        ELSE before
        ELSE (before \notin {"absent", after} /\ after # "absent") =>
               (before = "waiting_for_texture_upload" /\ after = "ready")

C24_StateChangesOfTheCode == [][StateChangesOfTheCode]_vars

\* A second load_tile thread for a key is about to store its image while
\* the entry of the key is ready.
C24_CompletionOnReady ==
  /\ loadmutex # 0
  /\ StateOf(tiles, loadmutex) = "ready"
\* --------------------------------------------------------------- claim C25

\* A step in which the display pass evicts the back entry of the full list.
EvictionStep == InsertStep /\ Len(tiles) = TileCacheSize

\* When fewer load_tile threads are alive than the list has places, the
\* entry an eviction removes is not loading.
LoadingNotEvicted ==
  (EvictionStep /\ Decodes < TileCacheSize) =>
    tiles[Len(tiles)].state # "loading"

\* C25: when capacity exceeds the number of in-flight decodes, a Loading
\* entry is never the back-most entry at the moment of an eviction, so no
\* tile is evicted while its decode is pending or running.
C25_LoadingNotEvicted == [][LoadingNotEvicted]_vars

\* The list is full, its back entry is loading, its other entries are
\* ready and a single load_tile thread is alive.
C25_LoadingAtBack ==
  /\ Len(tiles) = TileCacheSize
  /\ tiles[Len(tiles)].state = "loading"
  /\ \A i \in 1..(Len(tiles) - 1) : tiles[i].state = "ready"
  /\ Decodes = 1
\* --------------------------------------------------------------- claim C26

\* C26: a failure while decoding one tile never terminates the process and
\* never affects other in-flight tiles: the viewer keeps running.
C26_DecodeFailureSurvived == ~exited

\* A decode has failed while load_tile threads of other keys were waiting
\* for loadmutex: they never run, and their entries stay loading.
C26_OthersInFlight ==
  /\ exited
  /\ \E k \in Keys :
       /\ k # loadmutex
       /\ loadThreads[k] > 0
       /\ StateOf(tiles, k) = "loading"
\* --------------------------------------------------------------- claim C27

\* What happens to a worker between a pick and the return of its callback:
\* the pick takes one request out of the queue, for this worker alone; the
\* worker then runs the callback for that request, whatever the caller
\* does meanwhile, and leaves it only by the callback's return.
PickedRunsOnce ==
  \A w \in Workers :
    /\ (wpc[w] # "callback" /\ wpc'[w] = "callback") =>
         /\ wpc[w] = "lock"
         /\ \E i \in 1..Len(m_queue) :
              /\ wreq'[w] = m_queue[i]
              /\ m_queue' = SubSeq(m_queue, 1, i - 1)
                               \o SubSeq(m_queue, i + 1, Len(m_queue))
         /\ \A v \in Workers \ {w} : wpc'[v] = wpc[v] /\ wreq'[v] = wreq[v]
    /\ wpc[w] = "callback" =>
         \/ wpc'[w] = "callback" /\ wreq'[w] = wreq[w]
         \/ wpc'[w] = "lock" /\ wreq'[w] = NoReq /\ m_queue' = m_queue

\* While a callback runs the caller can call queue_tile and
\* mark_all_unwanted: the worker does not hold m_mutex.
CallerNotBlocked ==
  (\E w \in Workers : wpc[w] = "callback") =>
    /\ ENABLED MarkAllUnwanted
    /\ \A k \in CallerKeys : ENABLED QueueTile(k)

\* C27: every entry a worker removes from the queue has its callback
\* invoked exactly once, by that worker, even if shutdown is signalled or
\* the key is enqueued again or becomes unwanted after the pick; no entry is
\* picked by two workers; the callback runs with the queue lock released.
C27_PickedRunsOnce == [][PickedRunsOnce]_vars /\ []CallerNotBlocked

\* A callback is running after shutdown has been signalled, and the key it
\* runs for has been enqueued again.
C27_Witness ==
  \E w \in Workers :
    /\ wpc[w] = "callback"
    /\ m_shutdown
    /\ FindKey(m_queue, wreq[w].key, 1) # 0
\* --------------------------------------------------------------- claim C28

\* The step is a read of the fixed-block reader that lies within the
\* resource and has a byte in a block that holds no data.
ReadOfUnfilledBlock ==
  /\ reader = "block"
  /\ ret'.op = "read"
  /\ ret'.a >= 1
  /\ current_position + ret'.a <= file_size
  /\ \E b \in (current_position \div BlockSize)
               ..((current_position + ret'.a - 1) \div BlockSize) :
       Block(cache, b) = <<>>

\* Such a read ends in the failure of the assertion and in nothing else; it
\* fills no block and leaves the position.
UnfilledReadFails ==
  ReadOfUnfilledBlock =>
    /\ ret'.status = "aborted"
    /\ aborted'
    /\ cache' = cache
    /\ current_position' = current_position

\* C28: a fixed-block read within bounds whose span touches an unfilled
\* block always ends in the logic-contract-violation failure: it never
\* returns success or a recoverable status such as beyond-EOF, never fills
\* a block and never changes the position.
C28_UnfilledReadFails == [][UnfilledReadFails]_vars

\* What the code does: such a read makes one fetch at the position; it
\* returns beyond-EOF when the fetch fails, aborts in a build with
\* assertions, returns success without data in a build with NDEBUG; it
\* fills no block and leaves the position.
UnfilledReadOfTheCode ==
  ReadOfUnfilledBlock =>
    /\ Len(ret'.fetches) = 1
    /\ ret'.fetches[1][1] = current_position
    /\ ret'.out = <<>>
    /\ ret'.status \in {"beyond_eof", "aborted", "size_reached"}
    /\ ret'.status = "aborted" <=> aborted'
    /\ ret'.status = "aborted" => ~ndebug
    /\ ret'.status = "size_reached" => ndebug
    /\ cache' = cache
    /\ current_position' = current_position

C28_UnfilledReadOfTheCode == [][UnfilledReadOfTheCode]_vars

\* A read of an unfilled block has returned beyond-EOF after its fetch
\* failed.
C28_BeyondEofReturned ==
  /\ reader = "block"
  /\ ret.op = "read"
  /\ ret.status = "beyond_eof"
  /\ ret.pos0 + ret.a <= file_size
  /\ ret.fetches # <<>>

\* A read of an unfilled block has returned success without data in a
\* build with NDEBUG.
C28_SuccessReturned ==
  /\ reader = "block"
  /\ ret.op = "read"
  /\ ret.status = "size_reached"
  /\ ret.out = <<>>
  /\ ret.fetches # <<>>
\* --------------------------------------------------------------- claim C29

\* The number of ranges a step adds to the cache of the interval-list
\* reader.
SpansAdded == Len(cache') - Len(cache)

\* The step is a read or request_range of the interval-list reader one of
\* whose fetches failed: it made more fetches than it added ranges.
FetchFailedStep ==
  /\ reader = "list"
  /\ ret'.op \in {"read", "request_range"}
  /\ Len(ret'.fetches) > SpansAdded

\* Such a call returns a failure, its failed fetch is its last and its only
\* failed one, the position is as before, and the ranges it has added are
\* those of the fetches before the failed one.
FetchFailureIsFinal ==
  FetchFailedStep =>
    /\ ret'.status \in {"beyond_eof", "error"}
    /\ Len(ret'.fetches) = SpansAdded + 1
    /\ current_position' = current_position
    /\ SubSeq(cache', 1, Len(cache)) = cache
    /\ \A i \in 1..SpansAdded :
         cache'[Len(cache) + i].start = ret'.fetches[i][1]
    /\ ret'.op = "request_range" => cache' = cache

\* C29: interval-list reader: when a fetch fails during read or
\* request_range the call returns a failure status after that single failed
\* attempt, the position is the same as before the call and no span is
\* added for the failed fetch.
C29_FetchFailureIsFinal == [][FetchFailureIsFinal]_vars

\* A read has failed at its second fetch, after it had fetched and copied a
\* first chunk away from the start of the resource.
C29_Witness ==
  /\ reader = "list"
  /\ ret.op = "read"
  /\ ret.status = "beyond_eof"
  /\ Len(ret.fetches) = 2
  /\ current_position = ret.pos0
  /\ \E i \in 1..Len(cache) : cache[i].start = ret.fetches[1][1]
\* --------------------------------------------------------------- claim C30

\* Whether byte p is held by a range of the cache c of the interval-list
\* reader.
InCache(c, p) ==
  \E i \in 1..Len(c) : c[i].start <= p /\ p < c[i].start + Len(c[i].data)

\* Whether byte p lies in one of the first n byte ranges of fs.
InFetches(fs, n, p) == \E j \in 1..n : fs[j][1] <= p /\ p <= fs[j][2]

\* What a step that is a read of n bytes within the resource does on the
\* interval-list reader: it returns, after at most ceil(n / chunk) fetches;
\* each fetch starts at the first byte from the position on that neither
\* the cache nor an earlier fetch of the call covers, and ends a chunk
\* later or at the last byte of the resource.
ReadFetchesChunks ==
  (/\ reader = "list"
   /\ ret'.op = "read"
   /\ file_size # -1
   /\ current_position + ret'.a <= file_size) =>
    LET n == ret'.a
        fs == ret'.fetches
    IN  /\ ret'.status \in {"size_reached", "beyond_eof"}
        /\ Len(fs) <= (n + ChunkSize - 1) \div ChunkSize
        /\ \A i \in 1..Len(fs) :
             /\ current_position <= fs[i][1]
             /\ fs[i][1] < current_position + n
             /\ ~InCache(cache, fs[i][1])
             /\ ~InFetches(fs, i - 1, fs[i][1])
             /\ \A p \in current_position..(fs[i][1] - 1) :
                  InCache(cache, p) \/ InFetches(fs, i - 1, p)
             /\ fs[i][2] = Min(fs[i][1] + ChunkSize - 1, file_size - 1)

LargeLengths == (UIntRange + BlockSize + 1)..(UIntRange + 2 * BlockSize)

\* The offsets of the last block an unsigned int can address and of the
\* blocks after it.
LargeOffsets == (UIntRange - BlockSize)..(UIntRange + 2 * BlockSize)

\* An HttpReader_BlockCache as constructed, for a resource longer than an
\* unsigned int.
InitLargeResource ==
  /\ InitTiles
  /\ InitReaderObject
  /\ reader = "block"
  /\ content_length \in LargeLengths
  /\ ndebug \in BOOLEAN

\* The calls on the fixed-block reader that compute offsets from block
\* indices, and seek, at offsets around the largest unsigned int.
NextLargeResource ==
  \/ \E probe \in Probes : init_bc(probe)
  \/ \E size \in 1..MaxReadSize, lost \in BOOLEAN : cb_read_bc(size, lost)
  \/ \E position \in LargeOffsets : cb_seek_bc(position)
  \/ \E start \in LargeOffsets, end \in LargeOffsets, lost \in BOOLEAN :
       cb_request_range_bc(start, end, lost)

\* The fixed-block reader on a resource longer than an unsigned int.
SpecLargeResource == InitLargeResource /\ [][NextLargeResource]_vars

\* ------------------------------------------------------------------ C31

\* The offsets of the bytes a server sends for "Range: first-last" on a
\* resource of the given length.
FetchedOffsets(span, length) ==
  IF span[2] < span[1] THEN 0..(length - 1)
                       ELSE span[1]..Min(span[2], length - 1)

\* The offsets the call recorded in r received from the server that lie
\* outside the range [r.a, r.b) it was called with.
OverFetched(r, length) ==
  UNION {{i \in FetchedOffsets(r.fetches[k], length) : i < r.a \/ i >= r.b} :
           k \in 1..Len(r.fetches)}

\* C31: a request_range(start, end) of the fixed-block reader with
\* start < end <= total_length fetches at most 2 * BlockSize - 2 bytes
\* outside [start, end).
C31_OverFetchBounded ==
  (reader = "block" /\ ret.op = "request_range"
     /\ ret.status = "size_reached"
     /\ ret.a < ret.b /\ ret.b <= file_size)
    => Cardinality(OverFetched(ret, file_size)) <= 2 * BlockSize - 2

\* A request that fetched BlockSize - 1 bytes before its range and
\* BlockSize - 1 bytes behind it.
C31_BoundReached ==
  /\ reader = "block" /\ ret.op = "request_range"
  /\ ret.status = "size_reached"
  /\ ret.a < ret.b /\ ret.b <= file_size
  /\ Cardinality(OverFetched(ret, file_size)) = 2 * BlockSize - 2
  /\ \E i \in OverFetched(ret, file_size) : i < ret.a
  /\ \E i \in OverFetched(ret, file_size) : i >= ret.b

\* A request for blocks past the largest unsigned int that received
\* nothing but bytes outside its range.
C31_WrappedFetch ==
  /\ reader = "block" /\ ret.op = "request_range"
  /\ ret.status = "size_reached"
  /\ ret.a < ret.b /\ ret.b <= file_size
  /\ ret.fetches # <<>>
  /\ FetchedOffsets(ret.fetches[1], file_size) = OverFetched(ret, file_size)
  /\ Cardinality(OverFetched(ret, file_size)) > 2 * BlockSize - 2

\* ------------------------------------------------------------------ C32

\* The range [b0 * BlockSize, min((b1 + 1) * BlockSize, length) - 1] of
\* the blocks b0..b1 that are left of [start, end) when the filled blocks
\* of c at both ends are taken off, as a pair of byte offsets.
TrueSpan(c, start, end, length) ==
  LET b0 == TrimFront(c, start \div BlockSize, (end - 1) \div BlockSize)
      b1 == TrimBack(c, b0, (end - 1) \div BlockSize)
  IN  <<b0 * BlockSize, Min((b1 + 1) * BlockSize, length) - 1>>

\* The bytes at the offsets pos .. pos + size - 1 of the resource as the
\* blocks of c hold them: offset p is byte p - b * BlockSize of block
\* b = p / BlockSize.
TrueCopy(c, pos, size) ==
  [i \in 1..size |->
     Block(c, (pos + i - 1) \div BlockSize)
       [(pos + i - 1) - ((pos + i - 1) \div BlockSize) * BlockSize + 1]]

\* The request_range half of C32: a fetch of request_range asks for the
\* bytes from b0 * BlockSize to min((b1 + 1) * BlockSize, total_length) - 1.
RequestOffsetsTrue ==
  (reader = "block" /\ ret'.op = "request_range" /\ ret'.fetches # <<>>)
    => ret'.fetches = <<TrueSpan(cache, ret'.a, ret'.b, file_size)>>

\* The read half of C32: a read served from the blocks delivers, for every
\* offset, the byte at that offset's place in its block, and moves the
\* position by the size.
ReadOffsetsTrue ==
  (reader = "block" /\ ret'.op = "read" /\ ret'.status = "size_reached"
     /\ ret'.fetches = <<>>)
    => /\ ret'.out = TrueCopy(cache, current_position, ret'.a)
       /\ current_position' = current_position + ret'.a

\* C32: for every total_length, also past the largest unsigned int, the
\* offsets the fixed-block reader computes from block indices are the true
\* ones: request_range asks for the bytes from b0 * BlockSize to
\* min((b1 + 1) * BlockSize, total_length) - 1, and read copies from the
\* right place of each block.
C32_OffsetsTrue == [][RequestOffsetsTrue /\ ReadOffsetsTrue]_vars

\* What holds of C32: the offsets of read are the true ones although the
\* products wrap, because every difference read takes of them is smaller
\* than an unsigned int.
C32_ReadOffsetsTrue == [][ReadOffsetsTrue]_vars

\* A read served from a block past the largest unsigned int.
C32_ReadPastWrap ==
  /\ reader = "block" /\ ret.op = "read" /\ ret.status = "size_reached"
  /\ ret.fetches = <<>>
  /\ ret.out # <<>>
  /\ ret.pos0 >= UIntRange

\* A request_range for a block past the largest unsigned int whose fetch
\* asked for bytes at the start of the resource and stored them as that
\* block.
C32_WrongBytesStored ==
  /\ reader = "block" /\ ret.op = "request_range"
  /\ ret.status = "size_reached"
  /\ ret.a >= UIntRange
  /\ ret.fetches # <<>>
  /\ ret.fetches[1][1] < BlockSize
  /\ Block(cache, ret.a \div BlockSize)[1] = Byte(ret.fetches[1][1])
====
